---------------------------- MODULE Spec2Model ----------------------------
(***************************************************************************)
(* Model of src/app.py: the CIX analyser.  One uploaded spreadsheet is     *)
(* turned into a scoring record (procesar_evaluacion_empresa), the file is *)
(* stored in the object store, the record is inserted in the table         *)
(* 'evaluaciones'; saved records are listed through a cache and deleted.   *)
(*                                                                         *)
(* Text is modelled as a sequence of one-character strings, so that        *)
(* lower(), strip(), endswith(), split() and replace() are computed.       *)
(* Scores are in tenths (0.4 is 4); cix_total is in hundredths (0.08 is 8).*)
(***************************************************************************)
EXTENDS Integers, Sequences, FiniteSets, TLC

VARIABLES
    \* the hosted backend
    storage,              \* bucket 'evaluaciones-cix-files': file name -> bytes
    tabla,                \* table 'evaluaciones': the set of rows
    reloj,                \* the next generated id / creation timestamp
    \* the server process (shared by all sessions)
    cache,                \* st.cache_data entry of obtener_evaluaciones_de_db
    candado,              \* the session computing that entry (0: nobody)
    \* each browser session
    active,               \* the sessions that are open
    pc,                   \* position of the session's script run
    menu_selection,       \* the section chosen in the sidebar
    uploaded_file,        \* the file in st.file_uploader
    eval_data_processed,  \* what procesar_evaluacion_empresa returned
    file_url_supabase,    \* what subir_archivo_a_supabase returned
    refresh_data,         \* st.session_state['refresh_data']
    df_evaluaciones,      \* the listing the page shows
    boton,                \* the id whose "Confirmar Eliminación" was clicked
    resultado,            \* the value obtener_evaluaciones_de_db is about to return
    \* observation
    traza,                \* what the current run of the session has called and reported
    version,              \* the number of inserts and deletes done on the table
    ultima_mutacion,      \* per session: version after its last upload or delete
    ultimo_subir          \* per file name: the session whose upload stored it last

backend == <<storage, tabla, reloj>>
proceso == <<cache, candado>>
sesion == <<active, pc, menu_selection, uploaded_file, eval_data_processed,
            file_url_supabase, refresh_data, df_evaluaciones, boton, resultado>>
observacion == <<traza, version, ultima_mutacion, ultimo_subir>>

vars == <<backend, proceso, sesion, observacion>>

Sessions == {1, 2}

-----------------------------------------------------------------------------
(* Text helpers (Python str methods)                                       *)

upper_to_lower ==
    ("A" :> "a") @@ ("B" :> "b") @@ ("C" :> "c") @@ ("D" :> "d") @@ ("E" :> "e") @@
    ("F" :> "f") @@ ("G" :> "g") @@ ("H" :> "h") @@ ("I" :> "i") @@ ("J" :> "j") @@
    ("K" :> "k") @@ ("L" :> "l") @@ ("M" :> "m") @@ ("N" :> "n") @@ ("O" :> "o") @@
    ("P" :> "p") @@ ("Q" :> "q") @@ ("R" :> "r") @@ ("S" :> "s") @@ ("T" :> "t") @@
    ("U" :> "u") @@ ("V" :> "v") @@ ("W" :> "w") @@ ("X" :> "x") @@ ("Y" :> "y") @@
    ("Z" :> "z") @@ ("Á" :> "á") @@ ("É" :> "é") @@ ("Í" :> "í") @@ ("Ó" :> "ó") @@
    ("Ú" :> "ú") @@ ("Ñ" :> "ñ")

whitespace == {" ", "\t", "\n"}

lower(s) ==
    [i \in 1..Len(s) |-> IF s[i] \in DOMAIN upper_to_lower THEN upper_to_lower[s[i]] ELSE s[i]]

RECURSIVE lstrip(_)
lstrip(s) == IF s # <<>> /\ Head(s) \in whitespace THEN lstrip(Tail(s)) ELSE s

RECURSIVE rstrip(_)
rstrip(s) ==
    IF s # <<>> /\ s[Len(s)] \in whitespace THEN rstrip(SubSeq(s, 1, Len(s) - 1)) ELSE s

strip(s) == rstrip(lstrip(s))

startswith(s, prefix) ==
    Len(prefix) <= Len(s) /\ SubSeq(s, 1, Len(prefix)) = prefix

endswith(s, suffix) ==
    Len(suffix) <= Len(s) /\ SubSeq(s, Len(s) - Len(suffix) + 1, Len(s)) = suffix

\* s.replace(old, new): every non-overlapping occurrence, left to right
RECURSIVE replace(_, _, _)
replace(s, old, new) ==
    IF s = <<>> THEN <<>>
    ELSE IF startswith(s, old)
         THEN new \o replace(SubSeq(s, Len(old) + 1, Len(s)), old, new)
         ELSE <<Head(s)>> \o replace(Tail(s), old, new)

\* the positions where sep occurs in s
ocurrencias(s, sep) ==
    { i \in 1..(Len(s) - Len(sep) + 1) : SubSeq(s, i, i + Len(sep) - 1) = sep }

\* s.split(sep): the pieces of s between the occurrences of sep (for a sep that
\* cannot overlap itself, as "-", "/", " " and "(ID: ")
split(s, sep) ==
    LET occ == ocurrencias(s, sep)
        n == Cardinality(occ)
        nth(k) == CHOOSE p \in occ : Cardinality({ q \in occ : q < p }) = k - 1
    IN [k \in 1..(n + 1) |->
            SubSeq(s, IF k = 1 THEN 1 ELSE nth(k - 1) + Len(sep),
                      IF k = n + 1 THEN Len(s) ELSE nth(k) - 1)]

-----------------------------------------------------------------------------
(* 1. Global configuration                                                 *)

\* dict keys in insertion order, values in tenths
CALIFICACION_KEYS == <<"N", "P", "T", "E">>

COLUMNAS_CALIFICACION == [N |-> 0, P |-> 4, T |-> 8, E |-> 10]

INDICADORES_A_EVALUAR == <<
    <<"D","a","t","o","s"," ","d","e"," ","a","c","t","i","v","i","d","a","d">>,
    <<"F","a","c","t","o","r","e","s"," ","d","e"," ","e","m","i","s","i","ó","n">>,
    <<"A","l","c","a","n","c","e"," ","1">>,
    <<"A","l","c","a","n","c","e"," ","2">>,
    <<"A","l","c","a","n","c","e"," ","3">>,
    <<"C","a","t","e","g","o","r","í","a","s"," ","e","x","c","l","u","i","d","a","s">>,
    <<"C","o","n","s","o","l","i","d","a","c","i","ó","n">>,
    <<"A","u","d","i","t","o","r","í","a">>,
    <<"C","o","m","p","r","o","m","i","s","o","s"," ","d","e"," ","r","e","d","u","c","c","i","ó","n">>,
    <<"E","v","a","l","u","a","c","i","ó","n"," ","d","e"," ","i","n","c","e","r","t","i","d","u","m","b","r","e">> >>

Alcance_1 == INDICADORES_A_EVALUAR[3]
Auditoria == INDICADORES_A_EVALUAR[8]

\* the columns E, F, G, H that hold the marks for N, P, T, E
calificacion_col_indices == <<4, 5, 6, 7>>

-----------------------------------------------------------------------------
(* The DataFrame read with header=None: nrows x ncols cells addressed by   *)
(* zero-based position; a position without content is NaN.                 *)

NaN == [isna |-> TRUE, text |-> <<>>]

Txt(s) == [isna |-> FALSE, text |-> s]

InBounds(df_raw, r, c) == r < df_raw.nrows /\ c < df_raw.ncols

\* df_raw.iloc[r, c] for a position inside the frame
iloc(df_raw, r, c) ==
    IF <<r, c>> \in DOMAIN df_raw.cells THEN Txt(df_raw.cells[<<r, c>>]) ELSE NaN

\* str(cell): NaN prints as "nan"
str(cell) == IF cell.isna THEN <<"n","a","n">> ELSE cell.text


-----------------------------------------------------------------------------
(* 2. procesar_evaluacion_empresa                                          *)

\* what a function gives back when it returns None
None == [ok |-> FALSE, db_data |-> <<>>]

\* lines 58-64: dispatch on the lower-cased file name
formato(file_name) ==
    IF endswith(lower(file_name), <<".","c","s","v">>) THEN "csv"
    ELSE IF endswith(lower(file_name), <<".","x","l","s","x">>) THEN "xlsx"
    ELSE "unsupported"

\* line 70: the cell, else the file name up to the first "-" without its suffix
nombre_organizacion(df_raw, file_name) ==
    IF ~iloc(df_raw, 5, 1).isna THEN iloc(df_raw, 5, 1).text
    ELSE replace(replace(split(file_name, <<"-">>)[1],
                         <<".","x","l","s","x">>, <<>>),
                 <<".","c","s","v">>, <<>>)

\* line 71
periodo_informe(df_raw) ==
    IF ~iloc(df_raw, 6, 1).isna THEN iloc(df_raw, 6, 1).text
    ELSE <<"D","e","s","c","o","n","o","c","i","d","o">>

\* line 72
enlace_documentacion(df_raw) ==
    IF ~iloc(df_raw, 7, 1).isna THEN iloc(df_raw, 7, 1).text
    ELSE <<"N","/","A">>

\* lines 70-72 raise IndexError when a metadata position is outside the frame
metadatos_IndexError(df_raw) ==
    \E r \in {5, 6, 7} : ~InBounds(df_raw, r, 1)

\* line 79 raises IndexError when column 0 or column 1 does not exist
columnas_nombre_IndexError(df_raw) ==
    df_raw.ncols < 2

\* a Series element compared with the name: NaN equals nothing
celda_igual(cell, indicador_nombre) ==
    ~cell.isna /\ cell.text = indicador_nombre

\* line 79: the index of the rows whose column 0 or column 1 is the name
fila_indicador(df_raw, indicador_nombre) ==
    { r \in 0..(df_raw.nrows - 1) :
        \/ celda_igual(iloc(df_raw, r, 0), indicador_nombre)
        \/ celda_igual(iloc(df_raw, r, 1), indicador_nombre) }

\* line 82: fila_indicador[0]
primera_fila(filas) == CHOOSE r \in filas : \A q \in filas : r <= q

\* line 90, first conjunct: col_idx < df_raw.shape[1]
col_en_rango(df_raw, col_idx) == col_idx < df_raw.ncols

\* line 90, second conjunct: str(cell).strip().lower() == 'x'
es_x(cell) == lower(strip(str(cell))) = <<"x">>

\* lines 88-92 from the k-th rating column on; exc: the read raised IndexError
RECURSIVE puntuacion_desde(_, _, _)
puntuacion_desde(df_raw, fila_idx, k) ==
    IF k > Len(calificacion_col_indices) \/ k > Len(CALIFICACION_KEYS)
    THEN [exc |-> FALSE, val |-> 0]
    ELSE LET col_idx == calificacion_col_indices[k] IN
         IF ~col_en_rango(df_raw, col_idx)
         THEN puntuacion_desde(df_raw, fila_idx, k + 1)
         ELSE IF ~InBounds(df_raw, fila_idx, col_idx)
         THEN [exc |-> TRUE, val |-> 0]
         ELSE IF es_x(iloc(df_raw, fila_idx, col_idx))
         THEN [exc |-> FALSE, val |-> COLUMNAS_CALIFICACION[CALIFICACION_KEYS[k]]]
         ELSE puntuacion_desde(df_raw, fila_idx, k + 1)

\* a variant of the column loop without the break: the last marked column wins
RECURSIVE puntuacion_sin_break_desde(_, _, _, _)
puntuacion_sin_break_desde(df_raw, fila_idx, k, acc) ==
    IF k > Len(calificacion_col_indices) THEN [exc |-> FALSE, val |-> acc]
    ELSE LET col_idx == calificacion_col_indices[k] IN
         puntuacion_sin_break_desde(df_raw, fila_idx, k + 1,
            IF col_idx < df_raw.ncols /\ es_x(iloc(df_raw, fila_idx, col_idx))
            THEN COLUMNAS_CALIFICACION[CALIFICACION_KEYS[k]] ELSE acc)

puntuacion_sin_break(df_raw, fila_idx) == puntuacion_sin_break_desde(df_raw, fila_idx, 1, 0)

\* lines 84-92
puntuacion_obtenida(df_raw, fila_idx) == puntuacion_desde(df_raw, fila_idx, 1)

\* lines 79-96 for one indicator
puntuacion_indicador(df_raw, indicador_nombre) ==
    LET filas == fila_indicador(df_raw, indicador_nombre) IN
    IF filas # {} THEN puntuacion_obtenida(df_raw, primera_fila(filas))
    ELSE [exc |-> FALSE, val |-> 0]

\* lines 75-96: the dict built by the loop (with the IndexError marks)
puntuaciones_indicadores(df_raw) ==
    [i \in 1..Len(INDICADORES_A_EVALUAR) |->
        puntuacion_indicador(df_raw, INDICADORES_A_EVALUAR[i])]

RECURSIVE suma_hasta(_, _)
suma_hasta(puntuaciones, n) ==
    IF n = 0 THEN 0 ELSE puntuaciones[n].val + suma_hasta(puntuaciones, n - 1)

\* the number of indicators whose row was found
encontrados(df_raw) ==
    Cardinality({ i \in 1..Len(INDICADORES_A_EVALUAR) :
                    fila_indicador(df_raw, INDICADORES_A_EVALUAR[i]) # {} })

\* a variant that divides by the number of indicators located in the sheet
divisor_encontrados(df_raw) ==
    IF encontrados(df_raw) = 0 THEN 1 ELSE encontrados(df_raw)

\* line 100: the divisor
divisor(df_raw) == Len(INDICADORES_A_EVALUAR)

\* lines 99-102, in hundredths: (sum in tenths) / divisor
cix_total(df_raw, puntuaciones) ==
    IF DOMAIN puntuaciones # {}
    THEN (10 * suma_hasta(puntuaciones, Len(puntuaciones))) \div divisor(df_raw)
    ELSE 0

\* a variant that keys an indicator by the first word of its name
snake_case_primera_palabra(key) == lower(split(key, <<" ">>)[1])

\* line 114: key.lower().replace(" ", "_").replace("-", "_")
snake_case(key) ==
    replace(replace(lower(key), <<" ">>, <<"_">>), <<"-">>, <<"_">>)

clave_indicador ==
    [i \in 1..Len(INDICADORES_A_EVALUAR) |-> snake_case(INDICADORES_A_EVALUAR[i])]

k_organizacion_nombre ==
    <<"o","r","g","a","n","i","z","a","c","i","o","n","_","n","o","m","b","r","e">>
k_periodo_informe ==
    <<"p","e","r","i","o","d","o","_","i","n","f","o","r","m","e">>
k_enlace_original_documentacion ==
    <<"e","n","l","a","c","e","_","o","r","i","g","i","n","a","l","_",
      "d","o","c","u","m","e","n","t","a","c","i","o","n">>
k_cix_total == <<"c","i","x","_","t","o","t","a","l">>

claves_metadatos ==
    {k_organizacion_nombre, k_periodo_informe, k_enlace_original_documentacion, k_cix_total}

claves_indicadores == { clave_indicador[i] : i \in DOMAIN clave_indicador }

\* lines 106-114: the four fixed keys, then one assignment per indicator in order
\* (a later assignment to the same key replaces the earlier one)
db_data(df_raw, file_name, puntuaciones) ==
    [k \in claves_metadatos \cup claves_indicadores |->
        IF k \in claves_indicadores
        THEN LET i == CHOOSE i \in DOMAIN clave_indicador :
                        /\ clave_indicador[i] = k
                        /\ \A j \in DOMAIN clave_indicador :
                              clave_indicador[j] = k => j <= i
             IN puntuaciones[i].val
        ELSE IF k = k_organizacion_nombre THEN nombre_organizacion(df_raw, file_name)
        ELSE IF k = k_periodo_informe THEN periodo_informe(df_raw)
        ELSE IF k = k_enlace_original_documentacion THEN enlace_documentacion(df_raw)
        ELSE cix_total(df_raw, puntuaciones)]

\* lines 56-120; file_bytes_obj: [parse_ok, nrows, ncols, cells], where parse_ok
\* says whether pd.read_csv / pd.read_excel can read the bytes
procesar_evaluacion_empresa(file_bytes_obj, file_name) ==
    IF formato(file_name) = "unsupported" THEN None        \* lines 62-64
    ELSE IF ~file_bytes_obj.parse_ok THEN None             \* lines 59/61 raise
    ELSE LET df_raw == file_bytes_obj
             puntuaciones == puntuaciones_indicadores(df_raw)
         IN IF metadatos_IndexError(df_raw) THEN None      \* lines 70-72 raise
            ELSE IF columnas_nombre_IndexError(df_raw) THEN None   \* line 79 raises
            ELSE IF \E i \in DOMAIN puntuaciones : puntuaciones[i].exc THEN None
            ELSE [ok |-> TRUE, db_data |-> db_data(df_raw, file_name, puntuaciones)]

\* a variant of the test of line 292 that takes any result for a record
truthy_siempre(d) == TRUE

\* `if eval_data_processed:` (line 292): neither None nor an empty dict
truthy_dict(d) == d.ok /\ DOMAIN d.db_data # {}

-----------------------------------------------------------------------------
(* The files of the extraction check: template-shaped sheets of several    *)
(* sizes, with an organisation cell and indicator rows below the metadata. *)

MaxMarks == 2        \* rating cells with content in a generated sheet

MarkTexts == { <<" ","X"," ">>, <<"n","o">> }

RowNames == { Alcance_1, Auditoria }

OrgTexts == { <<>>, <<"A","c","m","e","C","o","r","p">> }

\* a sheet with more than 8 rows has indicator rows from row 8 on
SheetRows == {0, 7, 8, 9, 10}

SheetCols == {1, 2, 5, 7, 8}

ExtractNames ==
    { <<"A","c","m","e","-","2","0","2","4",".","x","l","s","x">>,
      <<"b",".","C","S","V">> }

\* the indicator rows of a sheet of this size: where the name is, and the name
SheetIndRows(nrows, ncols) ==
    [1..(IF nrows > 8 THEN nrows - 8 ELSE 0) ->
        [name_col : { c \in {0, 1} : c < ncols }, name : RowNames]]

\* the rating cells of the indicator rows, at most MaxMarks of them with content
SheetMarks(nrows, ncols) ==
    LET cols == { c \in 4..7 : c < ncols }
        pos == (8..(nrows - 1)) \X cols
    IN UNION { [S -> MarkTexts] : S \in { T \in SUBSET pos : Cardinality(T) <= MaxMarks } }

SheetOrgs(nrows, ncols) ==
    IF nrows > 5 /\ ncols > 1 THEN OrgTexts ELSE {<<>>}

\* the cells with content: the organisation at (5, 1), row i of rows at 7 + i
CellsOf(org, rows, marks) ==
    LET entries ==
            (IF org # <<>> THEN { <<5, 1, org>> } ELSE {})
            \cup { <<7 + i, rows[i].name_col, rows[i].name>> : i \in DOMAIN rows }
            \cup { <<p[1], p[2], marks[p]>> : p \in { q \in DOMAIN marks : marks[q] # <<>> } }
    IN [p \in { <<e[1], e[2]>> : e \in entries } |->
            (CHOOSE e \in entries : <<e[1], e[2]>> = p)[3]]

Sheet(nrows, ncols, org, rows, marks) ==
    [parse_ok |-> TRUE, nrows |-> nrows, ncols |-> ncols,
     cells |-> CellsOf(org, rows, marks)]

NoFile == [name |-> <<>>, bytes |-> [parse_ok |-> FALSE, nrows |-> 0, ncols |-> 0, cells |-> <<>>]]


-----------------------------------------------------------------------------
(* 3. Interaction with Supabase.  Every call to the backend has an answer  *)
(* chosen by the backend: data, an error payload, nothing, or an exception.*)

SUPABASE_URL == <<"h","t","t","p","s",":","/","/","s","b",".","c","o">>

SUPABASE_BUCKET_NAME == <<"e","v","a","l","u","a","c","i","o","n","e","s","-","c","i","x","-","f","i","l","e","s">>

k_url_archivo_supabase ==
    <<"u","r","l","_","a","r","c","h","i","v","o","_","s","u","p","a","b","a","s","e">>

\* line 141
public_url(file_name) ==
    SUPABASE_URL \o <<"/","s","t","o","r","a","g","e","/","v","1","/","o","b","j","e","c","t","/","p","u","b","l","i","c","/">>
        \o SUPABASE_BUCKET_NAME \o <<"/">> \o file_name

\* a variant of the bucket that keeps the object already stored under the name
storage_upload_sin_sobrescribir(almacen, file_name, file_bytes) ==
    [n \in (DOMAIN almacen) \cup {file_name} |->
        IF n \in DOMAIN almacen THEN almacen[n] ELSE file_bytes]

\* lines 134-136: the upload stores the bytes under the name and replaces an
\* object already there
storage_upload(almacen, file_name, file_bytes) ==
    [n \in (DOMAIN almacen) \cup {file_name} |->
        IF n = file_name THEN file_bytes ELSE almacen[n]]

\* line 192: remove([file_name])
storage_remove(almacen, file_name) ==
    [n \in (DOMAIN almacen) \ {file_name} |-> almacen[n]]

RespuestasUpload == {"data", "error", "vacia", "excepcion"}

\* lines 139-149: res.data gives the URL; an error, neither, or an exception give None
subir_archivo_retorno(file_name, res) ==
    IF res = "data" THEN public_url(file_name) ELSE <<>>

\* a variant of the test of line 301 that goes on without a URL
url_siempre(url) == TRUE

\* line 301: `if file_url_supabase:`
url_truthy(url) == url # <<>>

\* line 155: eval_data['url_archivo_supabase'] = file_url_supabase
con_url(eval_data, url) ==
    [k \in (DOMAIN eval_data) \cup {k_url_archivo_supabase} |->
        IF k = k_url_archivo_supabase THEN url ELSE eval_data[k]]

Digitos == <<"1","2","3","4","5","6","7","8","9">>

\* the identifier the backend generates for the n-th insert
uuid(n) == <<"u", Digitos[n]>>

RespuestasTabla == {"data", "error", "excepcion"}

\* line 158: insert; the backend adds id and fecha_evaluacion
insertar(t, datos, n) ==
    t \cup { [id |-> uuid(n), fecha_evaluacion |-> n, datos |-> datos] }

\* line 173: .order('fecha_evaluacion', desc=True)
RECURSIVE ordenar_desc(_)
ordenar_desc(filas) ==
    IF filas = {} THEN <<>>
    ELSE LET r == CHOOSE r \in filas : \A q \in filas : q.fecha_evaluacion <= r.fecha_evaluacion
         IN <<r>> \o ordenar_desc(filas \ {r})

\* line 173: the answer of the select: data and error of the response, or an exception
select_evaluaciones(t, resp) ==
    [excepcion |-> resp = "excepcion",
     data |-> IF resp = "data" THEN ordenar_desc(t) ELSE <<>>,
     error |-> IF resp = "error" THEN "APIError" ELSE "None"]

\* lines 171-182: the DataFrame returned and the notices shown.  With empty
\* data, line 178 reads response.error.message: when the response carries no
\* error this raises AttributeError, which line 180 catches.
obtener_evaluaciones_de_db(response) ==
    IF response.excepcion
    THEN [filas |-> <<>>, avisos |-> {"error: Excepción al obtener evaluaciones"}]
    ELSE IF response.data # <<>>
    THEN [filas |-> response.data, avisos |-> {}]
    ELSE IF response.error = "None"
    THEN [filas |-> <<>>, avisos |-> {"error: Excepción al obtener evaluaciones"}]
    ELSE [filas |-> <<>>, avisos |-> {"warning: No hay evaluaciones guardadas"}]

\* line 202: delete().eq('id', eval_id)
borrar_fila(t, eval_id) == { r \in t : r.id # eval_id }

\* line 334: the text of a row in the selectbox
opcion_eliminar(row) ==
    row.datos[k_organizacion_nombre] \o <<" ","-"," ">> \o row.datos[k_periodo_informe]
        \o <<" ","(","I","D",":"," ">> \o row.id \o <<")">>

\* lines 334-335
opciones_eliminar(filas) == { opcion_eliminar(filas[i]) : i \in DOMAIN filas }

\* line 348: evaluacion_a_eliminar_str.split('(ID: ')[1][:-1]
eval_id_to_delete(evaluacion_a_eliminar_str) ==
    LET parte == split(evaluacion_a_eliminar_str, <<"(","I","D",":"," ">>)[2]
    IN SubSeq(parte, 1, Len(parte) - 1)

\* line 352: the rows of the listing with that id
filas_con_id(filas, eval_id) == { i \in DOMAIN filas : filas[i].id = eval_id }

\* lines 352-354: the text after the last "/" of the row's URL
file_name_in_storage(filas, eval_id) ==
    LET i == CHOOSE i \in filas_con_id(filas, eval_id) :
                \A j \in filas_con_id(filas, eval_id) : i <= j
        partes == split(filas[i].datos[k_url_archivo_supabase], <<"/">>)
    IN partes[Len(partes)]

-----------------------------------------------------------------------------
(* 5. The script runs of a session.  A run of the script is a sequence of  *)
(* steps; each step holds at most one call to the backend or one access to *)
(* the shared cache, so that the runs of two sessions interleave there.    *)

MaxInserts == 2      \* uploads that may be started

\* the files a user submits
ArchivoA1 ==
    [name |-> <<"a",".","c","s","v">>,
     bytes |-> Sheet(9, 8, <<>>,
                     <<[name_col |-> 0, name |-> Alcance_1]>>,
                     [p \in {<<8, 6>>} |-> <<"x">>])]

\* the same name with other bytes
ArchivoA2 ==
    [name |-> <<"a",".","c","s","v">>,
     bytes |-> Sheet(9, 8, <<"A","c","m","e","C","o","r","p">>,
                     <<[name_col |-> 1, name |-> Auditoria]>>,
                     [p \in {<<8, 7>>} |-> <<" ","X"," ">>])]

ArchivoTxt == [name |-> <<"n",".","t","x","t">>, bytes |-> ArchivoA1.bytes]

ArchivoIlegible ==
    [name |-> <<"c",".","x","l","s","x">>,
     bytes |-> [parse_ok |-> FALSE, nrows |-> 0, ncols |-> 0, cells |-> <<>>]]

ArchivoCorto ==
    [name |-> <<"d",".","c","s","v">>,
     bytes |-> Sheet(5, 2, <<>>, <<>>, <<>>)]

SessionFiles == {ArchivoA1, ArchivoA2, ArchivoTxt, ArchivoIlegible, ArchivoCorto}

ListadoNulo ==
    [filas |-> <<>>, avisos |-> {}, version |-> 0, respuesta |-> "", tabla_vacia |-> TRUE]

TrazaInicial ==
    [llamadas |-> <<>>, avisos |-> {}, subir |-> "", insertada |-> <<>>,
     archivo |-> "", ausente |-> FALSE, fila |-> ""]

EnSubida(s) == pc[s] \in {"procesar", "subir", "guardar"}

\* lines 273-287: the user opens "Subir Nueva Evaluación" and submits a file
SubirNuevaEvaluacion(s, f) ==
    /\ s \in active
    /\ pc[s] = "idle"
    /\ reloj + Cardinality({ t \in Sessions : EnSubida(t) }) <= MaxInserts
    /\ menu_selection' = [menu_selection EXCEPT ![s] = "Subir Nueva Evaluación"]
    /\ uploaded_file' = [uploaded_file EXCEPT ![s] = f]
    /\ eval_data_processed' = [eval_data_processed EXCEPT ![s] = None]
    /\ file_url_supabase' = [file_url_supabase EXCEPT ![s] = <<>>]
    /\ df_evaluaciones' = [df_evaluaciones EXCEPT ![s] = ListadoNulo]
    /\ boton' = [boton EXCEPT ![s] = <<>>]
    /\ pc' = [pc EXCEPT ![s] = "procesar"]
    /\ traza' = [traza EXCEPT ![s] = TrazaInicial]
    /\ UNCHANGED <<backend, proceso, active, refresh_data, resultado, version, ultima_mutacion, ultimo_subir>>

\* lines 290-292 and 309-310
Procesar(s) ==
    /\ s \in active
    /\ pc[s] = "procesar"
    /\ LET r == procesar_evaluacion_empresa(uploaded_file[s].bytes, uploaded_file[s].name) IN
       /\ eval_data_processed' = [eval_data_processed EXCEPT ![s] = r]
       /\ pc' = [pc EXCEPT ![s] = IF truthy_dict(r) THEN "subir" ELSE "idle"]
       /\ traza' = [traza EXCEPT
             ![s].llamadas = Append(@, "procesar"),
             ![s].avisos = @ \cup (IF truthy_dict(r) THEN {"success: procesado"}
                                   ELSE {"error: No se pudo procesar el archivo"})]
    /\ UNCHANGED <<backend, proceso, active, menu_selection, uploaded_file, file_url_supabase,
                   refresh_data, df_evaluaciones, boton, resultado, version, ultima_mutacion, ultimo_subir>>

\* lines 299-301 and 307-308: subir_archivo_a_supabase (lines 124-149)
SubirArchivo(s) ==
    /\ s \in active
    /\ pc[s] = "subir"
    /\ \E res \in RespuestasUpload :
          LET url == subir_archivo_retorno(uploaded_file[s].name, res) IN
          /\ storage' = IF res = "data"
                        THEN storage_upload(storage, uploaded_file[s].name,
                                            uploaded_file[s].bytes)
                        ELSE storage
          /\ ultimo_subir' = IF res = "data"
                             THEN [n \in (DOMAIN ultimo_subir) \cup {uploaded_file[s].name} |->
                                     IF n = uploaded_file[s].name THEN s ELSE ultimo_subir[n]]
                             ELSE ultimo_subir
          /\ file_url_supabase' = [file_url_supabase EXCEPT ![s] = url]
          /\ pc' = [pc EXCEPT ![s] = IF url_truthy(url) THEN "guardar" ELSE "idle"]
          /\ traza' = [traza EXCEPT
                ![s].llamadas = Append(@, "subir"),
                ![s].subir = res,
                ![s].avisos = @ \cup (IF res = "data" THEN {"success: subido"}
                                      ELSE IF res = "vacia" THEN {"error: No se pudo subir"}
                                      ELSE {"error: subir", "error: No se pudo subir"})]
    /\ UNCHANGED <<tabla, reloj, proceso, active, menu_selection, uploaded_file,
                   eval_data_processed, refresh_data, df_evaluaciones, boton, resultado,
                   version, ultima_mutacion>>

\* a variant of line 305 that leaves the flag down
refresh_sin_activar == "False"

\* line 305: st.session_state['refresh_data'] = True
refresh_tras_guardar == "True"

\* lines 303-306: guardar_evaluacion_en_db (lines 151-166), then the refresh flag
GuardarEvaluacion(s) ==
    /\ s \in active
    /\ pc[s] = "guardar"
    /\ \E resp \in RespuestasTabla :
          LET eval_data == con_url(eval_data_processed[s].db_data, file_url_supabase[s]) IN
          /\ tabla' = IF resp = "data" THEN insertar(tabla, eval_data, reloj) ELSE tabla
          /\ reloj' = IF resp = "data" THEN reloj + 1 ELSE reloj
          /\ version' = IF resp = "data" THEN version + 1 ELSE version
          /\ ultima_mutacion' = [ultima_mutacion EXCEPT
                                    ![s] = IF resp = "data" THEN version + 1 ELSE @]
          /\ traza' = [traza EXCEPT
                ![s].llamadas = Append(@, "guardar"),
                ![s].insertada = IF resp = "data" THEN uuid(reloj) ELSE @,
                ![s].avisos = @ \cup (IF resp = "data" THEN {"success: guardada"}
                                      ELSE {"error: guardar"})]
    /\ refresh_data' = [refresh_data EXCEPT ![s] = refresh_tras_guardar]
    /\ pc' = [pc EXCEPT ![s] = "idle"]
    /\ UNCHANGED <<storage, proceso, active, menu_selection, uploaded_file,
                   eval_data_processed, file_url_supabase, df_evaluaciones, boton, resultado,
                   ultimo_subir>>

CacheVacia == [presente |-> FALSE, valor |-> ListadoNulo]

\* lines 313-323: the start of a run of "Ver Evaluaciones Guardadas"
IniciarListado(s) ==
    /\ menu_selection' = [menu_selection EXCEPT ![s] = "Ver Evaluaciones Guardadas"]
    /\ cache' = IF refresh_data[s] = "True" THEN CacheVacia ELSE cache
    /\ refresh_data' = [refresh_data EXCEPT ![s] = "False"]
    /\ pc' = [pc EXCEPT ![s] = "obtener"]
    /\ traza' = [traza EXCEPT ![s] = TrazaInicial]
    /\ uploaded_file' = [uploaded_file EXCEPT ![s] = NoFile]
    /\ eval_data_processed' = [eval_data_processed EXCEPT ![s] = None]
    /\ file_url_supabase' = [file_url_supabase EXCEPT ![s] = <<>>]
    /\ UNCHANGED <<backend, candado, active, df_evaluaciones, resultado, version,
                   ultima_mutacion, ultimo_subir>>

\* the user opens "Ver Evaluaciones Guardadas"
VerEvaluaciones(s) ==
    /\ s \in active
    /\ pc[s] = "idle"
    /\ boton' = [boton EXCEPT ![s] = <<>>]
    /\ IniciarListado(s)

\* line 359 (st.experimental_rerun) or a click: the script runs again
Rerun(s) ==
    /\ s \in active
    /\ pc[s] = "rerun"
    /\ UNCHANGED boton
    /\ IniciarListado(s)

\* lines 327-356 once the listing df is there: where the run goes on
despues_de_listar(s, df) ==
    IF df.filas # <<>> /\ boton[s] \in opciones_eliminar(df.filas)
          /\ filas_con_id(df.filas, eval_id_to_delete(boton[s])) # {}
    THEN "eliminar_archivo"
    ELSE "idle"

\* line 325, the entry of the cache is there: it is returned
ObtenerDeCache(s) ==
    /\ s \in active
    /\ pc[s] = "obtener"
    /\ cache.presente
    /\ df_evaluaciones' = [df_evaluaciones EXCEPT ![s] = cache.valor]
    /\ pc' = [pc EXCEPT ![s] = despues_de_listar(s, cache.valor)]
    /\ traza' = [traza EXCEPT ![s].avisos = @ \cup cache.valor.avisos]
    /\ UNCHANGED <<backend, proceso, active, menu_selection, uploaded_file,
                   eval_data_processed, file_url_supabase, refresh_data, boton, resultado,
                   version, ultima_mutacion, ultimo_subir>>

\* line 325, no entry: the function body runs (lines 171-182), one session at a time
ObtenerDeDb(s) ==
    /\ s \in active
    /\ pc[s] = "obtener"
    /\ ~cache.presente
    /\ candado = 0
    /\ candado' = s
    /\ \E resp \in RespuestasTabla :
          LET df == obtener_evaluaciones_de_db(select_evaluaciones(tabla, resp)) IN
          resultado' = [resultado EXCEPT
                           ![s] = [filas |-> df.filas, avisos |-> df.avisos,
                                   version |-> version, respuesta |-> resp,
                                   tabla_vacia |-> tabla = {}]]
    /\ pc' = [pc EXCEPT ![s] = "escribir"]
    /\ UNCHANGED <<backend, cache, active, menu_selection, uploaded_file,
                   eval_data_processed, file_url_supabase, refresh_data, df_evaluaciones,
                   boton, traza, version, ultima_mutacion, ultimo_subir>>

\* the returned value is written to the cache and handed to the caller
ObtenerEscribir(s) ==
    /\ s \in active
    /\ pc[s] = "escribir"
    /\ cache' = [presente |-> TRUE, valor |-> resultado[s]]
    /\ candado' = 0
    /\ df_evaluaciones' = [df_evaluaciones EXCEPT ![s] = resultado[s]]
    /\ pc' = [pc EXCEPT ![s] = despues_de_listar(s, resultado[s])]
    /\ traza' = [traza EXCEPT ![s].avisos = @ \cup resultado[s].avisos]
    /\ resultado' = [resultado EXCEPT ![s] = ListadoNulo]
    /\ UNCHANGED <<backend, active, menu_selection, uploaded_file, eval_data_processed,
                   file_url_supabase, refresh_data, boton, version, ultima_mutacion,
                   ultimo_subir>>

\* line 168: ttl=600, the entry expires
CacheExpira ==
    /\ cache.presente
    /\ cache' = CacheVacia
    /\ UNCHANGED <<backend, candado, sesion, observacion>>

\* lines 340-356: the user selects a row of the listing and clicks the button
ConfirmarEliminacion(s, evaluacion_a_eliminar_str) ==
    /\ s \in active
    /\ pc[s] = "idle"
    /\ menu_selection[s] = "Ver Evaluaciones Guardadas"
    /\ evaluacion_a_eliminar_str \in opciones_eliminar(df_evaluaciones[s].filas)
    /\ boton' = [boton EXCEPT ![s] = evaluacion_a_eliminar_str]
    /\ pc' = [pc EXCEPT ![s] = "rerun"]
    /\ UNCHANGED <<backend, proceso, active, menu_selection, uploaded_file,
                   eval_data_processed, file_url_supabase, refresh_data, df_evaluaciones,
                   resultado, observacion>>

RespuestasRemove == {"ok", "error", "excepcion"}

\* lines 357-359, first half of eliminar_evaluacion_de_db (lines 189-198, 208-209):
\* an exception of remove() leaves the try block, the row is not touched
EliminarArchivo(s) ==
    /\ s \in active
    /\ pc[s] = "eliminar_archivo"
    /\ LET nombre == file_name_in_storage(df_evaluaciones[s].filas, eval_id_to_delete(boton[s])) IN
       \E res \in RespuestasRemove :
          /\ storage' = IF res = "ok" THEN storage_remove(storage, nombre) ELSE storage
          /\ traza' = [traza EXCEPT
                ![s].llamadas = Append(@, "remove"),
                ![s].archivo = res,
                ![s].ausente = nombre \notin DOMAIN storage,
                ![s].avisos = @ \cup (IF res = "ok" THEN {"success: Archivo eliminado"}
                                      ELSE IF res = "error" THEN {"warning: Error al eliminar archivo"}
                                      ELSE {"error: Excepción al eliminar"})]
          /\ pc' = [pc EXCEPT ![s] = IF res = "excepcion" THEN "rerun" ELSE "eliminar_fila"]
          /\ refresh_data' = [refresh_data EXCEPT ![s] = IF res = "excepcion" THEN "True" ELSE @]
          /\ boton' = [boton EXCEPT ![s] = IF res = "excepcion" THEN <<>> ELSE @]
    /\ UNCHANGED <<tabla, reloj, proceso, active, menu_selection, uploaded_file,
                   eval_data_processed, file_url_supabase, df_evaluaciones, resultado,
                   version, ultima_mutacion, ultimo_subir>>

\* second half of eliminar_evaluacion_de_db (lines 200-209), then lines 358-359
EliminarFila(s) ==
    /\ s \in active
    /\ pc[s] = "eliminar_fila"
    /\ LET eval_id == eval_id_to_delete(boton[s])
           borrada == \E r \in tabla : r.id = eval_id
       IN \E resp \in RespuestasTabla :
          /\ tabla' = IF resp = "data" THEN borrar_fila(tabla, eval_id) ELSE tabla
          /\ version' = IF resp = "data" /\ borrada THEN version + 1 ELSE version
          /\ ultima_mutacion' = [ultima_mutacion EXCEPT
                ![s] = IF resp = "data" /\ borrada THEN version + 1 ELSE @]
          /\ traza' = [traza EXCEPT
                ![s].llamadas = Append(@, "delete"),
                ![s].fila = resp,
                ![s].avisos = @ \cup (IF resp = "data" /\ borrada
                                      THEN {"success: Evaluación eliminada"}
                                      ELSE IF resp = "error"
                                      THEN {"error: Error al eliminar de la base de datos"}
                                      ELSE {"error: Excepción al eliminar"})]
    /\ refresh_data' = [refresh_data EXCEPT ![s] = "True"]
    /\ boton' = [boton EXCEPT ![s] = <<>>]
    /\ pc' = [pc EXCEPT ![s] = "rerun"]
    /\ UNCHANGED <<storage, reloj, proceso, active, menu_selection, uploaded_file,
                   eval_data_processed, file_url_supabase, df_evaluaciones, resultado,
                   ultimo_subir>>

InitComun ==
    /\ storage = [n \in {} |-> NoFile]
    /\ tabla = {}
    /\ reloj = 1
    /\ cache = CacheVacia
    /\ candado = 0
    /\ menu_selection = [s \in Sessions |-> "Subir Nueva Evaluación"]
    /\ eval_data_processed = [s \in Sessions |-> None]
    /\ file_url_supabase = [s \in Sessions |-> <<>>]
    /\ refresh_data = [s \in Sessions |-> "absent"]
    /\ df_evaluaciones = [s \in Sessions |-> ListadoNulo]
    /\ boton = [s \in Sessions |-> <<>>]
    /\ resultado = [s \in Sessions |-> ListadoNulo]
    /\ traza = [s \in Sessions |-> TrazaInicial]
    /\ version = 0
    /\ ultima_mutacion = [s \in Sessions |-> 0]
    /\ ultimo_subir = [n \in {} |-> 0]

\* one session
Init ==
    /\ InitComun
    /\ active = {1}
    /\ pc = [s \in Sessions |-> "idle"]
    /\ uploaded_file = [s \in Sessions |-> NoFile]

\* two sessions on the same server
InitCarrera ==
    /\ InitComun
    /\ active = Sessions
    /\ pc = [s \in Sessions |-> "idle"]
    /\ uploaded_file = [s \in Sessions |-> NoFile]

\* one session that has just submitted a generated sheet
InitExtract ==
    /\ InitComun
    /\ active = {1}
    /\ \E n \in ExtractNames, nr \in SheetRows, nc \in SheetCols :
          \E org \in SheetOrgs(nr, nc), rows \in SheetIndRows(nr, nc),
             marks \in SheetMarks(nr, nc) :
             uploaded_file =
                [s \in Sessions |->
                    IF s = 1 THEN [name |-> n, bytes |-> Sheet(nr, nc, org, rows, marks)]
                    ELSE NoFile]
    /\ pc = [s \in Sessions |-> IF s = 1 THEN "procesar" ELSE "idle"]

Next ==
    \/ \E s \in Sessions :
          \/ \E f \in SessionFiles : SubirNuevaEvaluacion(s, f)
          \/ Procesar(s)
          \/ SubirArchivo(s)
          \/ GuardarEvaluacion(s)
          \/ VerEvaluaciones(s)
          \/ Rerun(s)
          \/ ObtenerDeCache(s)
          \/ ObtenerDeDb(s)
          \/ ObtenerEscribir(s)
          \/ \E op \in opciones_eliminar(df_evaluaciones[s].filas) : ConfirmarEliminacion(s, op)
          \/ EliminarArchivo(s)
          \/ EliminarFila(s)
    \/ CacheExpira

\* the upload runs alone, for the race of two sessions
NextSubida ==
    \E s \in Sessions :
        \/ \E f \in SessionFiles : SubirNuevaEvaluacion(s, f)
        \/ Procesar(s)
        \/ SubirArchivo(s)
        \/ GuardarEvaluacion(s)

NextExtract == \E s \in Sessions : Procesar(s)

Spec == Init /\ [][Next]_vars

SpecCarrera == InitCarrera /\ [][NextSubida]_vars

SpecExtract == InitExtract /\ [][NextExtract]_vars

-----------------------------------------------------------------------------
(* Properties of the extraction (checked under SpecExtract)                *)

\* session s has run procesar_evaluacion_empresa on its file
Procesado(s) == s \in active /\ pc[s] # "procesar"

Registro(s) == eval_data_processed[s].db_data

Hoja(s) == uploaded_file[s].bytes

RECURSIVE SumaIndicadores(_, _)
SumaIndicadores(d, n) ==
    IF n = 0 THEN 0 ELSE d[clave_indicador[n]] + SumaIndicadores(d, n - 1)

\* C1: every returned record has cix_total = (sum of the ten indicator scores) / 10,
\* whatever number of indicators was located; with the scores in tenths and
\* cix_total in hundredths the two numbers are equal.
C1_TotalEsSumaEntreDiez ==
    \A s \in Sessions :
        (Procesado(s) /\ eval_data_processed[s].ok) =>
            Registro(s)[k_cix_total] = SumaIndicadores(Registro(s), 10)

\* only 'Alcance 1' is located, with its mark in column 6: 0.8, and the total is 0.08
C1_Witness ==
    \E s \in Sessions :
        /\ Procesado(s) /\ eval_data_processed[s].ok
        /\ encontrados(Hoja(s)) = 1
        /\ Registro(s)[clave_indicador[3]] = 8
        /\ Registro(s)[k_cix_total] = 8

\* the rating columns, in scan order, whose cell of that row is an "x" after
\* trimming and lower-casing
ColumnasMarcadas(df_raw, fila) ==
    { k \in 1..4 :
        /\ <<fila, k + 3>> \in DOMAIN df_raw.cells
        /\ k + 3 < df_raw.ncols
        /\ lower(strip(df_raw.cells[<<fila, k + 3>>])) = <<"x">> }

PesoDeColumna == <<0, 4, 8, 10>>

\* C2: for every indicator located in a row, the first of the columns 4, 5, 6, 7
\* holding an "x" (trimmed, lower-cased) gives 0, 0.4, 0.8 or 1; later marked
\* columns are ignored; without any "x" the score is 0.
C2_PrimeraMarcaGana ==
    \A s \in Sessions :
        (Procesado(s) /\ eval_data_processed[s].ok) =>
            \A i \in 1..Len(INDICADORES_A_EVALUAR) :
                LET filas == fila_indicador(Hoja(s), INDICADORES_A_EVALUAR[i])
                    fila == CHOOSE r \in filas : \A q \in filas : r <= q
                    marcadas == ColumnasMarcadas(Hoja(s), fila)
                IN filas # {} =>
                     Registro(s)[clave_indicador[i]] =
                        IF marcadas = {} THEN 0
                        ELSE PesoDeColumna[CHOOSE k \in marcadas : \A j \in marcadas : k <= j]

\* a located indicator with marks in columns 5 (" X ") and 7: the score is 0.4
C2_Witness ==
    \E s \in Sessions :
        /\ Procesado(s) /\ eval_data_processed[s].ok
        /\ \E i \in 1..Len(INDICADORES_A_EVALUAR) :
              LET filas == fila_indicador(Hoja(s), INDICADORES_A_EVALUAR[i]) IN
              /\ filas # {}
              /\ \E fila \in filas :
                    /\ \A q \in filas : fila <= q
                    /\ ColumnasMarcadas(Hoja(s), fila) = {2, 4}
                    /\ Hoja(s).cells[<<fila, 5>>] = <<" ","X"," ">>
              /\ Registro(s)[clave_indicador[i]] = 4

\* C3: every returned record has exactly ten indicator entries, one per name of
\* INDICADORES_A_EVALUAR, each in {0, 0.4, 0.8, 1}; an indicator whose name is in
\* neither name column of any row has the value 0.
C3_DiezIndicadores ==
    \A s \in Sessions :
        (Procesado(s) /\ eval_data_processed[s].ok) =>
            /\ Cardinality((DOMAIN Registro(s)) \ claves_metadatos) = 10
            /\ \A i \in 1..Len(INDICADORES_A_EVALUAR) :
                  LET k == replace(replace(lower(INDICADORES_A_EVALUAR[i]),
                                           <<" ">>, <<"_">>), <<"-">>, <<"_">>)
                  IN /\ k \in DOMAIN Registro(s)
                     /\ Registro(s)[k] \in {0, 4, 8, 10}
                     /\ fila_indicador(Hoja(s), INDICADORES_A_EVALUAR[i]) = {}
                           => Registro(s)[k] = 0

\* a record of a sheet in which no indicator name occurs at all
C3_Witness ==
    \E s \in Sessions :
        /\ Procesado(s) /\ eval_data_processed[s].ok
        /\ encontrados(Hoja(s)) = 0
        /\ \A i \in 1..10 : Registro(s)[clave_indicador[i]] = 0

SoportadoYLegible(s) ==
    /\ formato(uploaded_file[s].name) # "unsupported"
    /\ Hoja(s).parse_ok

\* C4: a readable sheet of any size yields a record: no row or column
\* index outside the sheet makes the extraction fail
C4_Original_SiempreRegistro ==
    \A s \in Sessions :
        (Procesado(s) /\ SoportadoYLegible(s)) => eval_data_processed[s].ok

-----------------------------------------------------------------------------
(* Properties of the upload flow (checked under SpecCarrera)               *)

\* procesar_evaluacion_empresa ends in `return None` on this file: the suffix
\* of the lower-cased name is neither .xlsx nor .csv, or the read or an
\* unguarded cell access raises
sin_registro(f) ==
    \/ formato(f.name) = "unsupported"
    \/ ~f.bytes.parse_ok
    \/ metadatos_IndexError(f.bytes)
    \/ columnas_nombre_IndexError(f.bytes)

EnviadoSinRegistro(s) ==
    /\ s \in active
    /\ menu_selection[s] = "Subir Nueva Evaluación"
    /\ uploaded_file[s] # NoFile
    /\ sin_registro(uploaded_file[s])

\* C5: when the name of the submitted file ends in neither .csv nor .xlsx
\* (the suffix is read on the lower-cased name), or reading or extracting
\* raises, the result is None and nothing else, and the run of the upload
\* section stops after the extraction: it calls neither
\* subir_archivo_a_supabase nor guardar_evaluacion_en_db, stores no URL and
\* inserts no row.
C5_SinRegistroNiSubida ==
    \A s \in Sessions :
        EnviadoSinRegistro(s) =>
            /\ pc[s] \in {"procesar", "idle"}
            /\ traza[s].llamadas \in {<<>>, <<"procesar">>}
            /\ traza[s].subir = ""
            /\ traza[s].insertada = <<>>
            /\ file_url_supabase[s] = <<>>
            /\ pc[s] = "idle" =>
                  /\ eval_data_processed[s] = None
                  /\ traza[s].llamadas = <<"procesar">>
                  /\ "error: No se pudo procesar el archivo" \in traza[s].avisos

\* C5 witness: one session has submitted a file with the suffix .txt and the
\* other an unreadable .xlsx, both runs are over, and the store already
\* holds a file of an earlier upload.
C5_Witness ==
    \E s, t \in Sessions :
        /\ uploaded_file[s] = ArchivoTxt
        /\ uploaded_file[t] = ArchivoIlegible
        /\ pc[s] = "idle" /\ pc[t] = "idle"
        /\ traza[s].llamadas = <<"procesar">>
        /\ traza[t].llamadas = <<"procesar">>
        /\ DOMAIN storage # {}
        /\ tabla # {}

PasosDeSubida == <<"procesar", "subir", "guardar">>

\* C7: the calls of a run of the upload section are a prefix of extract,
\* store_file, save_record, each at most once; save_record is reached only
\* with the public URL that store_file returned, and when store_file answered
\* with an error, with neither data nor error, or with an exception, the run
\* is over after two calls and has inserted no row.
C7_OrdenDeSubida ==
    \A s \in Sessions :
        LET ll == traza[s].llamadas IN
        menu_selection[s] = "Subir Nueva Evaluación" =>
            /\ Len(ll) <= Len(PasosDeSubida)
            /\ ll = SubSeq(PasosDeSubida, 1, Len(ll))
            /\ (pc[s] = "guardar" \/ Len(ll) = 3) =>
                  /\ traza[s].subir = "data"
                  /\ file_url_supabase[s] = public_url(uploaded_file[s].name)
            /\ traza[s].subir \in {"error", "vacia", "excepcion"} =>
                  /\ pc[s] = "idle"
                  /\ ll = <<"procesar", "subir">>
                  /\ traza[s].insertada = <<>>
                  /\ file_url_supabase[s] = <<>>
            /\ traza[s].insertada # <<>> => Len(ll) = 3

\* C7 witness: a record was extracted, the upload to storage came back with
\* neither data nor error, and the run is over without an insert.
C7_Witness ==
    \E s \in Sessions :
        /\ truthy_dict(eval_data_processed[s])
        /\ traza[s].subir = "vacia"
        /\ pc[s] = "idle"
        /\ traza[s].llamadas = <<"procesar", "subir">>
        /\ tabla = {}

\* the run of the upload section of session u stored its file and inserted its row
SubidaCompleta(u) ==
    /\ pc[u] = "idle"
    /\ traza[u].llamadas = PasosDeSubida
    /\ traza[u].insertada # <<>>

\* C10: when two sessions have each stored and saved a file of the same
\* name, whatever the interleaving of the four calls, the store holds under
\* that name the bytes of the session whose upload call ran last, and the
\* table holds two rows with different ids, one per session, each with that
\* session's extracted record and both with the one URL of the name.
C10_UltimaEscrituraGana ==
    \A s, t \in Sessions :
        (/\ s # t
         /\ SubidaCompleta(s)
         /\ SubidaCompleta(t)
         /\ uploaded_file[s].name = uploaded_file[t].name) =>
            LET n == uploaded_file[s].name
                url == public_url(n)
            IN /\ n \in DOMAIN storage
               /\ ultimo_subir[n] \in {s, t}
               /\ storage[n] = uploaded_file[ultimo_subir[n]].bytes
               /\ traza[s].insertada # traza[t].insertada
               /\ \A u \in {s, t} :
                     \E r \in tabla :
                        /\ r.id = traza[u].insertada
                        /\ r.datos = con_url(eval_data_processed[u].db_data, url)
                        /\ r.datos[k_url_archivo_supabase] = url

\* C10 witness: two sessions uploaded different bytes under one name; the
\* session that stored last inserted its row first.
C10_Witness ==
    \E s, t \in Sessions :
        /\ s # t
        /\ SubidaCompleta(s)
        /\ SubidaCompleta(t)
        /\ uploaded_file[s].name = uploaded_file[t].name
        /\ uploaded_file[s].bytes # uploaded_file[t].bytes
        /\ ultimo_subir[uploaded_file[s].name] = s
        /\ traza[s].insertada = uuid(1)
        /\ traza[t].insertada = uuid(2)

-----------------------------------------------------------------------------
(* Properties of the listing and of the deletion (checked under Spec)      *)

\* C6: once eliminar_evaluacion_de_db has returned, the removal of the file
\* was called first and the deletion of the row second, whatever the removal
\* gave, and a failed removal shows as a warning, not as an error.
C6_FilaSiempreIntentada ==
    \A s \in Sessions :
        (pc[s] = "rerun" /\ traza[s].archivo # "") =>
            /\ traza[s].llamadas = <<"remove", "delete">>
            /\ traza[s].archivo # "ok" =>
                  "warning: Error al eliminar archivo" \in traza[s].avisos

\* the listing is on the screen of session s
ListadoVisible(s) ==
    /\ s \in active
    /\ menu_selection[s] = "Ver Evaluaciones Guardadas"
    /\ pc[s] \in {"idle", "eliminar_archivo", "eliminar_fila"}

C9_TablaVaciaSinError ==
    \A s \in Sessions :
        (pc[s] = "escribir" /\ resultado[s].respuesta = "data") =>
            /\ resultado[s].tabla_vacia =>
                  /\ resultado[s].filas = <<>>
                  /\ \A a \in resultado[s].avisos : a # "error: Excepción al obtener evaluaciones"
            /\ \A i, j \in DOMAIN resultado[s].filas :
                  i < j => resultado[s].filas[i].fecha_evaluacion
                              >= resultado[s].filas[j].fecha_evaluacion

\* the file a row refers to: the text after the last "/" of its URL
ArchivoDeFila(r) ==
    LET partes == split(r.datos[k_url_archivo_supabase], <<"/">>)
    IN partes[Len(partes)]

\* every row of the table, but the one with this id, has its file in the store
FilasConArchivoSalvo(t, almacen, eval_id) ==
    \A r \in t : r.id # eval_id => ArchivoDeFila(r) \in DOMAIN almacen

\* C11: every row of the table refers to a file that is in the store, and a
\* deletion keeps it so for the rows that remain: from a state where every
\* row has its file, the removal of the file of the record being deleted
\* leaves every other row with its file.
C11_ArchivoDeOtraFilaSigue ==
    [][\A s \in Sessions :
          (/\ pc[s] = "eliminar_archivo"
           /\ \A r \in tabla : ArchivoDeFila(r) \in DOMAIN storage) =>
              FilasConArchivoSalvo(tabla', storage', eval_id_to_delete(boton[s]))]_vars

=============================================================================
